---- MODULE Spec2Model ----
(***************************************************************************)
(* Model of the game logic of game/views.py: the GameSession rows, the     *)
(* Investment rows, the user's statistics and the browser session, under   *)
(* the requests game_start_view, play_view, invest_view and pass_view.     *)
(*                                                                         *)
(* Spec     : requests are handled one at a time (each view is one step).  *)
(* SpecConc : invest_view is split at its database operations, so that two *)
(*            requests may overlap.                                        *)
(*                                                                         *)
(* Amounts are in units of 10,000 won as in the code (10000 = 100M won).   *)
(* Profit rates of a session are kept in hundredths of a percent, so that  *)
(* (capital - initial) / initial * 100 is an exact integer.                *)
(***************************************************************************)
EXTENDS Integers, Sequences, FiniteSets, TLC

\* ------------------------------------------------------------------------
\* Bounds of the model
\* ------------------------------------------------------------------------
MaxSessions == 2
MaxInvestments == 5
MaxOverlapped == 2
MaxWorkers == 2

\* ------------------------------------------------------------------------
\* Program constants
\* ------------------------------------------------------------------------
InitialCapital == 10000
InitialChances == 5
MinInvest == 2000
FailProfitRate == -100
MantissaBits == 53
LimbBits == 12
RateScale == 100

\* ------------------------------------------------------------------------
\* IEEE-754 binary64 arithmetic, as far as int(amount * (rate / 100)) uses
\* it.  A positive float is [m |-> bits, e |-> exponent]: the bits are the
\* significand, most significant first (at most 53 of them, the first one
\* 1), and the value is (bits as an integer) * 2^e.  Zero is Zero.  A
\* float that gets multiplied also carries its significand in limbs.
\* ------------------------------------------------------------------------
Zero == [m |-> <<>>, e |-> 0]

RECURSIVE Pow2(_)
Pow2(n) == IF n = 0 THEN 1 ELSE 2 * Pow2(n - 1)

\* the value of one limb, and the weights of the bits of a limb
LimbBase == Pow2(LimbBits)
BitWeight == [b \in 0..(LimbBits - 1) |-> Pow2(b)]

RECURSIVE BitsToInt(_, _)
BitsToInt(bits, acc) ==
    IF bits = <<>> THEN acc
    ELSE BitsToInt(Tail(bits), 2 * acc + Head(bits))

\* bits + 1: the last 0 becomes 1 and the 1s after it become 0
Incr(bits) ==
    LET zeros == {i \in 1..Len(bits) : bits[i] = 0}
    IN  IF zeros = {}
        THEN <<1>> \o [i \in 1..Len(bits) |-> 0]
        ELSE LET z == CHOOSE i \in zeros : \A k \in zeros : k <= i
             IN  [i \in 1..Len(bits) |->
                     IF i < z THEN bits[i] ELSE IF i = z THEN 1 ELSE 0]

\* round-half-even of a bit string longer than the significand:
\* keep the first 53 bits, look at the 54th (guard) and the rest (sticky)
RoundBits(bits, e) ==
    IF Len(bits) <= MantissaBits THEN [m |-> bits, e |-> e]
    ELSE LET kept   == SubSeq(bits, 1, MantissaBits)
             guard  == bits[MantissaBits + 1]
             sticky == \E i \in (MantissaBits + 2)..Len(bits) : bits[i] = 1
             up     == guard = 1 /\ (sticky \/ kept[MantissaBits] = 1)
             r      == IF up THEN Incr(kept) ELSE kept
             e2     == e + (Len(bits) - MantissaBits)
         IN  IF Len(r) > MantissaBits
             THEN [m |-> SubSeq(r, 1, MantissaBits), e |-> e2 + 1]
             ELSE [m |-> r, e |-> e2]

\* 2^j mod den, by squaring
RECURSIVE Pow2Mod(_, _)
Pow2Mod(j, den) ==
    IF j = 0 THEN 1 % den
    ELSE LET h == Pow2Mod(j \div 2, den)
         IN  (h * h * (IF j % 2 = 1 THEN 2 ELSE 1)) % den

\* long division of n by den (den <= n < 2 * den): the remainder left after
\* j fraction bits is n * 2^j mod den, and fraction bit j is the carry of
\* doubling the remainder before it
Remainder(n, den, j) == ((n % den) * Pow2Mod(j, den)) % den

\* the first count bits of n / den, most significant first, then a sticky
\* bit when the division is not exact there
QuotBits(n, den, count) ==
    LET bits == [i \in 1..count |->
                    IF i = 1 THEN 1
                    ELSE (2 * Remainder(n, den, i - 2)) \div den]
    IN  IF Remainder(n, den, count - 1) = 0 THEN bits ELSE bits \o <<1>>

\* scale n / den into [1, 2): the exponent k with den * 2^k <= n < den * 2^(k+1)
RECURSIVE Normalise(_, _, _)
Normalise(n, den, k) ==
    IF n < den THEN Normalise(2 * n, den, k - 1)
    ELSE IF n >= 2 * den THEN Normalise(n, 2 * den, k + 1)
    ELSE [n |-> n, den |-> den, k |-> k]

\* Python's int / int: the correctly rounded quotient of two integers
TrueDiv(p, d) ==
    IF p = 0 THEN Zero
    ELSE LET nz   == Normalise(p, d, 0)
             bits == QuotBits(nz.n, nz.den, MantissaBits + 1)
         IN  RoundBits(bits, nz.k - (Len(bits) - 1))

\* the significand in limbs of LimbBits bits, least significant limb first
Limbs(bits) ==
    LET n     == (Len(bits) + LimbBits - 1) \div LimbBits
        bit(i) == IF i >= 1 THEN bits[i] ELSE 0
    IN  [l \in 1..n |->
            BitsToInt([b \in 1..LimbBits |->
                          bit(Len(bits) - l * LimbBits + b)], 0)]

\* limbs * a, least significant limb first
RECURSIVE MulLimbs(_, _, _)
MulLimbs(limbs, a, carry) ==
    IF limbs = <<>>
    THEN IF carry = 0 THEN <<>>
         ELSE <<carry % LimbBase>> \o MulLimbs(<<>>, a, carry \div LimbBase)
    ELSE LET t == Head(limbs) * a + carry
         IN  <<t % LimbBase>> \o MulLimbs(Tail(limbs), a, t \div LimbBase)

\* the bits of each value of a limb, most significant first
LimbToBits ==
    [v \in 0..(LimbBase - 1) |->
        [b \in 1..LimbBits |-> (v \div BitWeight[LimbBits - b]) % 2]]

RECURSIVE AllBits(_)
AllBits(limbs) ==
    IF limbs = <<>> THEN <<>>
    ELSE AllBits(Tail(limbs)) \o LimbToBits[Head(limbs)]

\* the bits of the limbs, most significant first, without leading zeros
LimbsToBits(limbs) ==
    LET all == AllBits(limbs)
    IN  IF \A i \in 1..Len(all) : all[i] = 0 THEN <<>>
        ELSE SubSeq(all,
                    CHOOSE i \in 1..Len(all) :
                        all[i] = 1 /\ \A k \in 1..(i - 1) : all[k] = 0,
                    Len(all))

\* Python's int * float for a positive int: exact product, rounded once
FloatMul(a, x) ==
    IF a = 0 \/ x.m = <<>> THEN Zero
    ELSE RoundBits(LimbsToBits(MulLimbs(x.limbs, a, 0)), x.e)

\* Python's int(float) of a non-negative float: truncation
FloatToInt(x) ==
    IF x.m = <<>> THEN 0
    ELSE IF x.e >= 0 THEN BitsToInt(x.m, 0) * Pow2(x.e)
    ELSE IF Len(x.m) + x.e <= 0 THEN 0
    ELSE BitsToInt(SubSeq(x.m, 1, Len(x.m) + x.e), 0)

\* profit_rate / 100 for the rates the characters can yield (a table of
\* TrueDiv, so that the quotient is computed once for each rate)
Hundredths(rates) ==
    [p \in rates |->
        LET x == TrueDiv(p, 100)
        IN  [m |-> x.m, e |-> x.e, limbs |-> Limbs(x.m)]]

\* ------------------------------------------------------------------------
\* Data of the collaborators that are not part of views.py
\* ------------------------------------------------------------------------
\* characters get_random_character may return: success_rate in percent
\* (50 is 0.5), min_roi and max_roi in percent
Characters ==
    { [name |-> "A", success_rate |-> 50,  min_roi |-> 29, max_roi |-> 29] }

\* request.session without a 'current_character' key: .get(..., {}) is {}
NoCharacter == [name |-> "", success_rate |-> 0, min_roi |-> 0, max_roi |-> 0]

\* the values random.randint(min_roi, max_roi) may return
RoiDraws(character) == character.min_roi .. character.max_roi

RateOver100 == Hundredths(UNION {RoiDraws(c) : c \in Characters})

\* profit = int(invest_amount * (profit_rate / 100)); the product has the
\* sign of the amount and int() truncates towards zero
Profit(invest_amount, profit_rate) ==
    IF invest_amount < 0
    THEN 0 - FloatToInt(FloatMul(0 - invest_amount, RateOver100[profit_rate]))
    ELSE FloatToInt(FloatMul(invest_amount, RateOver100[profit_rate]))

\* values of random.random(), in percent: 0 is 0.0, 99 is just below 1.0
RandomDraws == {0, 99}

\* field defaults of the GameSession and User models
DefaultIsFinished == FALSE
DefaultFinalProfitRate == 0
DefaultTotalGames == 0
DefaultBestProfitRate == 0

\* GameSession.calculate_profit_rate: (capital - initial) / initial * 100,
\* in hundredths of a percent
calculate_profit_rate(session) ==
    ((session.current_capital - InitialCapital) * 100 * RateScale)
        \div InitialCapital

\* ------------------------------------------------------------------------
\* State
\* ------------------------------------------------------------------------
VARIABLES
    sessions,          \* GameSession rows of the user, indexed by pk
    investments,       \* Investment table: rows are only ever inserted and
                       \* never read back by these views, so it is kept as
                       \* the number of rows of each session (count) and
                       \* the row inserted last (row)
    user,              \* the User row: total_games, best_profit_rate
    current_character, \* request.session['current_character']
    draw,              \* which session the stored character was drawn for,
                       \* and whether an investment has used it since
    last,              \* the view that answered last, and where it sent
                       \* the browser
    reqs               \* invest_view requests in progress (SpecConc)

vars == <<sessions, investments, user, current_character, draw, last, reqs>>

\* request.POST.get('amount', 0): text that int() accepts, with its value,
\* or text on which int() raises ValueError; a missing key posts 0
Number(n) == [is_int |-> TRUE, value |-> n]
NotAnInteger == [is_int |-> FALSE, value |-> 0]

Response(view, to) == [view |-> view, to |-> to]

NoInvestment ==
    [session |-> 0, character_name |-> "", invest_amount |-> 0,
     is_success |-> FALSE, profit_rate |-> 0]

\* number of Investment rows in a table
RECURSIVE SumSeq(_)
SumSeq(seq) == IF seq = <<>> THEN 0 ELSE Head(seq) + SumSeq(Tail(seq))

TotalInvestments == SumSeq(investments.count)

\* workers that may each be handling one invest_view request
Procs == 1..MaxWorkers

Idle == [pc |-> "idle"]

InFlight == {p \in Procs : reqs[p].pc # "idle"}

Init ==
    /\ sessions = <<>>
    /\ investments = [count |-> <<>>, row |-> NoInvestment]
    /\ user = [total_games |-> DefaultTotalGames,
               best_profit_rate |-> DefaultBestProfitRate]
    /\ current_character = NoCharacter
    /\ draw = [sid |-> 0, used |-> FALSE]
    /\ last = Response("none", "none")
    /\ reqs = [p \in Procs |-> Idle]

\* ------------------------------------------------------------------------
\* Helpers of the views
\* ------------------------------------------------------------------------
\* update_user_stats(user, profit_rate): the user row it saves
update_user_stats(u, profit_rate) ==
    [total_games |-> u.total_games + 1,
     best_profit_rate |-> IF profit_rate > u.best_profit_rate
                          THEN profit_rate ELSE u.best_profit_rate]

\* GameSession.objects.filter(user=..., is_finished=False)
ActiveSessions == {i \in DOMAIN sessions : ~sessions[i].is_finished}

\* .first(): the row with the least pk
first(S) == CHOOSE i \in S : \A j \in S : i <= j

\* the session row GameSession.objects.create(...) inserts
NewSession ==
    [current_capital |-> InitialCapital,
     remaining_chances |-> InitialChances,
     is_finished |-> DefaultIsFinished,
     final_profit_rate |-> DefaultFinalProfitRate]

\* the session object play_view saves when the capital is below the floor
Closed(session) ==
    [session EXCEPT !.is_finished = TRUE,
                    !.final_profit_rate = calculate_profit_rate(session)]

\* ValidAmount without the check against the capital held
ValidAmountNoCeiling(invest_amount, capital) ==
    ~(invest_amount < MinInvest /\ invest_amount # capital)

\* ValidAmount without the minimum-investment check
ValidAmountNoFloor(invest_amount, capital) ==
    ~(invest_amount > capital)

\* the amount checks of invest_view: TRUE when the request goes on
ValidAmount(invest_amount, capital) ==
    /\ ~(invest_amount < MinInvest /\ invest_amount # capital)
    /\ ~(invest_amount > capital)

\* all the checks of invest_view that send the browser back to the play
\* screen
Rejected(method, posted, session, character) ==
    \/ method # "POST"
    \/ ~posted.is_int
    \/ ~ValidAmount(posted.value, session.current_capital)
    \/ character = NoCharacter

\* random.random() < success_prob
IsSuccess(u, character) == u < character.success_rate

\* the capital after the outcome is applied
Resolve(capital, invest_amount, is_success, profit_rate) ==
    IF is_success THEN capital + Profit(invest_amount, profit_rate)
    ELSE capital - invest_amount

\* the profit_rate the Investment row stores
RecordedRate(is_success, profit_rate) ==
    IF is_success THEN profit_rate ELSE FailProfitRate

\* GameOver that lets a session with no chance left go on
GameOverLate(remaining_chances, capital) ==
    remaining_chances < 0 \/ capital <= 0

\* the end-of-game check of invest_view
GameOver(remaining_chances, capital) ==
    remaining_chances <= 0 \/ capital <= 0

\* AfterInvest that charges a chance only for a failed investment
AfterInvestFreeSuccess(session, invest_amount, is_success, profit_rate) ==
    LET capital == Resolve(session.current_capital, invest_amount,
                           is_success, profit_rate)
        chances == IF is_success THEN session.remaining_chances
                   ELSE session.remaining_chances - 1
        s1      == [session EXCEPT !.current_capital = capital,
                                   !.remaining_chances = chances]
    IN  IF GameOver(chances, capital)
        THEN [s1 EXCEPT !.is_finished = TRUE,
                        !.final_profit_rate = calculate_profit_rate(s1)]
        ELSE s1

\* the in-memory session object after the outcome, the decrement and the
\* end-of-game check
AfterInvest(session, invest_amount, is_success, profit_rate) ==
    LET capital == Resolve(session.current_capital, invest_amount,
                           is_success, profit_rate)
        chances == session.remaining_chances - 1
        s1      == [session EXCEPT !.current_capital = capital,
                                   !.remaining_chances = chances]
    IN  IF GameOver(chances, capital)
        THEN [s1 EXCEPT !.is_finished = TRUE,
                        !.final_profit_rate = calculate_profit_rate(s1)]
        ELSE s1

\* the Investment row invest_view creates
NewInvestment(sid, character, invest_amount, is_success, profit_rate) ==
    [session |-> sid,
     character_name |-> character.name,
     invest_amount |-> invest_amount,
     is_success |-> is_success,
     profit_rate |-> RecordedRate(is_success, profit_rate)]

\* Investment.objects.create(...): the table with one more row
Inserted(table, row) ==
    [count |-> [table.count EXCEPT ![row.session] = @ + 1], row |-> row]

\* the amounts a request may post for a session with the given capital
Amounts(capital) ==
    {NotAnInteger} \cup
    {Number(n) : n \in {-1, 0, MinInvest - 1, 3000, capital, capital + 1}}

\* ------------------------------------------------------------------------
\* The views, one request at a time
\* ------------------------------------------------------------------------
game_start_view ==
    /\ IF ActiveSessions # {}
       THEN UNCHANGED <<sessions, investments>>
       ELSE /\ Len(sessions) < MaxSessions
            /\ sessions' = Append(sessions, NewSession)
            /\ investments' = [investments EXCEPT !.count = Append(@, 0)]
    /\ last' = Response("game_start", "play")
    /\ UNCHANGED <<user, current_character, draw, reqs>>

play_view(sid) ==
    /\ sid \in DOMAIN sessions
    /\ UNCHANGED <<investments, reqs>>
    /\ IF sessions[sid].is_finished
       THEN /\ last' = Response("play", "main")
            /\ UNCHANGED <<sessions, user, current_character, draw>>
       ELSE IF sessions[sid].current_capital < MinInvest
       THEN /\ sessions' = [sessions EXCEPT ![sid] = Closed(sessions[sid])]
            /\ user' = update_user_stats(user,
                           Closed(sessions[sid]).final_profit_rate)
            /\ last' = Response("play", "ranking")
            /\ UNCHANGED <<current_character, draw>>
       ELSE \E character \in Characters :
                /\ current_character' = character
                /\ draw' = [sid |-> sid, used |-> FALSE]
                /\ last' = Response("play", "render")
                /\ UNCHANGED <<sessions, user>>

pass_view(sid) ==
    /\ sid \in DOMAIN sessions
    /\ last' = Response("pass", "play")
    /\ UNCHANGED <<sessions, investments, user, current_character, draw, reqs>>

\* invest_view, from the lookup of the session to the redirect
invest_view(sid, method, posted) ==
    /\ sid \in DOMAIN sessions
    /\ UNCHANGED <<current_character, reqs>>
    /\ IF Rejected(method, posted, sessions[sid], current_character)
       THEN /\ last' = Response("invest", "play")
            /\ UNCHANGED <<sessions, investments, user, draw>>
       ELSE /\ TotalInvestments < MaxInvestments
            /\ \E u \in RandomDraws, roi \in RoiDraws(current_character) :
               LET is_success == IsSuccess(u, current_character)
                   s == AfterInvest(sessions[sid], posted.value,
                                    is_success, roi)
               IN  /\ investments' = Inserted(investments,
                          NewInvestment(sid, current_character, posted.value,
                                        is_success, roi))
                   /\ sessions' = [sessions EXCEPT ![sid] = s]
                   /\ user' = IF s.is_finished
                              THEN update_user_stats(user, s.final_profit_rate)
                              ELSE user
                   /\ draw' = [draw EXCEPT !.used = TRUE]
                   /\ last' = Response("invest", "result")

\* the requests a browser may send
Posts(sid) ==
    {[method |-> "GET", posted |-> Number(0)]} \cup
    {[method |-> "POST", posted |-> a] :
        a \in Amounts(sessions[sid].current_capital)}

invest_request ==
    \E sid \in DOMAIN sessions : \E r \in Posts(sid) :
        invest_view(sid, r.method, r.posted)

play_request == \E sid \in DOMAIN sessions : play_view(sid)

pass_request == \E sid \in DOMAIN sessions : pass_view(sid)

Next ==
    \/ game_start_view
    \/ play_request
    \/ pass_request
    \/ invest_request

Spec == Init /\ [][Next]_vars

\* ------------------------------------------------------------------------
\* invest_view split at its database operations: the request reads the user
\* and the session row and computes the outcome on its own copies, then
\* inserts the Investment row, then saves the whole session row, then (when
\* the game is over) saves the whole user row
\* ------------------------------------------------------------------------
invest_begin(p, sid, method, posted) ==
    /\ reqs[p].pc = "idle"
    /\ sid \in DOMAIN sessions
    /\ UNCHANGED <<sessions, investments, user, current_character>>
    /\ IF Rejected(method, posted, sessions[sid], current_character)
       THEN /\ last' = Response("invest", "play")
            /\ UNCHANGED <<draw, reqs>>
       ELSE /\ TotalInvestments + Cardinality(InFlight) < MaxOverlapped
            /\ \E u \in RandomDraws, roi \in RoiDraws(current_character) :
               LET is_success == IsSuccess(u, current_character)
               IN  reqs' = [reqs EXCEPT ![p] =
                       [pc |-> "create",
                        sid |-> sid,
                        user |-> user,
                        session |-> AfterInvest(sessions[sid], posted.value,
                                                is_success, roi),
                        investment |-> NewInvestment(sid, current_character,
                                           posted.value, is_success, roi)]]
            /\ draw' = [draw EXCEPT !.used = TRUE]
            /\ UNCHANGED last

invest_create(p) ==
    /\ reqs[p].pc = "create"
    /\ investments' = Inserted(investments, reqs[p].investment)
    /\ reqs' = [reqs EXCEPT ![p].pc = "save"]
    /\ UNCHANGED <<sessions, user, current_character, draw, last>>

invest_save(p) ==
    /\ reqs[p].pc = "save"
    /\ sessions' = [sessions EXCEPT ![reqs[p].sid] = reqs[p].session]
    /\ IF reqs[p].session.is_finished
       THEN /\ reqs' = [reqs EXCEPT ![p].pc = "stats"]
            /\ UNCHANGED last
       ELSE /\ reqs' = [reqs EXCEPT ![p] = Idle]
            /\ last' = Response("invest", "result")
    /\ UNCHANGED <<investments, user, current_character, draw>>

invest_stats(p) ==
    /\ reqs[p].pc = "stats"
    /\ user' = update_user_stats(reqs[p].user,
                                 reqs[p].session.final_profit_rate)
    /\ reqs' = [reqs EXCEPT ![p] = Idle]
    /\ last' = Response("invest", "result")
    /\ UNCHANGED <<sessions, investments, current_character, draw>>

invest_step ==
    \E p \in Procs :
        \/ \E sid \in DOMAIN sessions : \E r \in Posts(sid) :
               invest_begin(p, sid, r.method, r.posted)
        \/ invest_create(p)
        \/ invest_save(p)
        \/ invest_stats(p)

NextConc ==
    \/ game_start_view
    \/ play_request
    \/ pass_request
    \/ invest_step

SpecConc == Init /\ [][NextConc]_vars

\* ------------------------------------------------------------------------
\* Properties
\* ------------------------------------------------------------------------
\* a step that inserts an Investment row; the row is investments'.row and,
\* when requests do not overlap, the session it read is the unprimed one
InvestmentCreated ==
    SumSeq(investments'.count) > SumSeq(investments.count)

Finished == {sid \in DOMAIN sessions : sessions[sid].is_finished}

\* C1: a finished session is never mutated again: in a step from a state
\* where the session is finished, its row (is_finished, current_capital,
\* remaining_chances, final_profit_rate) and its Investment rows stay as
\* they are.
C1_FinishedIsFrozen ==
    [][\A sid \in Finished :
          /\ sessions'[sid] = sessions[sid]
          /\ investments'.count[sid] = investments.count[sid]]_vars

\* C2: the capital of every session is at least 0 in every reachable state,
\* whatever integer amounts are posted.
C2_CapitalNeverNegative ==
    \A sid \in DOMAIN sessions : sessions[sid].current_capital >= 0

\* a failed all-in investment has taken the capital to exactly 0
C2_Witness ==
    \E sid \in DOMAIN sessions :
        /\ sessions[sid].current_capital = 0
        /\ investments.row.session = sid
        /\ ~investments.row.is_success
        /\ investments.row.invest_amount = InitialCapital

\* C3 as stated: a session is finished exactly when it has 0 chances or 0
\* capital.
C3_ClosedIffExhausted ==
    \A sid \in DOMAIN sessions :
        sessions[sid].is_finished <=>
            (sessions[sid].remaining_chances = 0
                \/ sessions[sid].current_capital = 0)

\* C3 as amended: after every request, a session with no chance or no
\* capital left is finished; a session that a request closes has 0 chances
\* or a capital below the minimum investment; and play_view presents a
\* character only for an open session whose capital is at least the minimum
\* investment.
C3_ClosedAtFloor ==
    [][/\ \A sid \in DOMAIN sessions' :
            LET new == sessions'[sid]
                was_open == sid \notin DOMAIN sessions
                                \/ ~sessions[sid].is_finished
            IN  /\ (new.remaining_chances <= 0 \/ new.current_capital <= 0)
                       => new.is_finished
                /\ (was_open /\ new.is_finished)
                       => (new.remaining_chances = 0
                               \/ new.current_capital < MinInvest)
       /\ (last'.view = "play" /\ last'.to = "render")
              => /\ ~sessions'[draw'.sid].is_finished
                 /\ sessions'[draw'.sid].current_capital >= MinInvest]_vars

\* play_view has closed a session that still had chances and capital
C3_Witness ==
    \E sid \in DOMAIN sessions :
        /\ sessions[sid].is_finished
        /\ sessions[sid].remaining_chances > 0
        /\ sessions[sid].current_capital > 0
        /\ sessions[sid].current_capital < MinInvest
        /\ last = Response("play", "ranking")

\* C4: every amount that invest_view accepts is positive and at most the
\* capital the request read, and is below the minimum investment only when
\* it is the whole capital.
C4_AcceptedWager ==
    [][InvestmentCreated =>
          LET amount  == investments'.row.invest_amount
              capital == sessions[investments'.row.session].current_capital
          IN  /\ 0 < amount
              /\ amount <= capital
              /\ amount < MinInvest => amount = capital]_vars

\* C5: an accepted investment of a against capital c leaves c + (a * pct /
\* 100 truncated) and records (TRUE, pct) with pct within the character's
\* bounds on success, and leaves c - a and records (FALSE, -100) on failure.
C5_Resolution ==
    [][InvestmentCreated =>
          LET row == investments'.row
              a   == row.invest_amount
              c   == sessions[row.session].current_capital
              c2  == sessions'[row.session].current_capital
          IN  \/ /\ row.is_success
                 /\ row.profit_rate \in RoiDraws(current_character)
                 /\ c2 = c + ((a * row.profit_rate) \div 100)
              \/ /\ ~row.is_success
                 /\ row.profit_rate = FailProfitRate
                 /\ c2 = c - a]_vars

\* C6: a request that invest_view sends back to the play screen changes no
\* session, no Investment row and no statistics; and whenever an invest
\* request does change one of them, its amount was neither below the
\* minimum (unless all-in) nor above the capital, and a character was stored.
C6_RejectedChangesNothing ==
    [][/\ (last'.view = "invest" /\ last'.to = "play")
              => UNCHANGED <<sessions, investments, user>>
       /\ (last'.view = "invest"
               /\ <<sessions, investments, user>>'
                      # <<sessions, investments, user>>)
              => LET amount  == investments'.row.invest_amount
                     capital ==
                         sessions[investments'.row.session].current_capital
                 IN  /\ InvestmentCreated
                     /\ ~(amount < MinInvest /\ amount # capital)
                     /\ ~(amount > capital)
                     /\ current_character # NoCharacter]_vars

\* invest_view has sent a request for an open session back to the play screen
C6_Witness ==
    /\ last = Response("invest", "play")
    /\ ActiveSessions # {}
    /\ TotalInvestments > 0

\* C7: remaining_chances never increases; it decreases by exactly 1 in the
\* steps that insert an Investment row of the session, and in no other step.
C7_ChancesOnlyDecrease ==
    [][\A sid \in DOMAIN sessions :
          LET used == sessions[sid].remaining_chances
                          - sessions'[sid].remaining_chances
          IN  /\ used \in {0, 1}
              /\ used = 1 <=>
                     investments'.count[sid] = investments.count[sid] + 1
              /\ used = 1 => last' = Response("invest", "result")
              /\ used = 0 =>
                     investments'.count[sid] = investments.count[sid]]_vars

\* an investment has consumed a chance, and a pass has followed it
C7_Witness ==
    \E sid \in DOMAIN sessions :
        /\ sessions[sid].remaining_chances < InitialChances
        /\ investments.row.is_success
        /\ last = Response("pass", "play")

\* C8: total_games and best_profit_rate change only in a step that takes a
\* session from not finished to finished, by +1 and to the maximum of the
\* old best and the session's final_profit_rate; so total_games is the
\* number of finished sessions.
C8_StatsOnlyAtClose ==
    [][/\ user' # user =>
              \E sid \in DOMAIN sessions :
                  /\ ~sessions[sid].is_finished
                  /\ sessions'[sid].is_finished
                  /\ user'.total_games = user.total_games + 1
                  /\ user'.best_profit_rate =
                         IF sessions'[sid].final_profit_rate
                                > user.best_profit_rate
                         THEN sessions'[sid].final_profit_rate
                         ELSE user.best_profit_rate
       /\ user'.total_games = DefaultTotalGames +
              Cardinality({sid \in DOMAIN sessions' :
                              sessions'[sid].is_finished})]_vars

\* C9: whenever no invest_view request is in progress, each session has as
\* many Investment rows as chances consumed, also after overlapping requests.
C9_OneRowPerChance ==
    InFlight = {} =>
        \A sid \in DOMAIN sessions :
            investments.count[sid] =
                InitialChances - sessions[sid].remaining_chances

\* C10: every accepted investment uses a character that play_view drew for
\* that session and that no earlier investment has used.
C10_FreshCharacter ==
    [][InvestmentCreated =>
          /\ ~draw.used
          /\ draw.sid = investments'.row.session]_vars

====
